---- MODULE Spec2Model ----
(***************************************************************************)
(* A model of the stable skip list of src/pkg/stable_skip_list.go.         *)
(*                                                                         *)
(* Nodes are identified by their insertion rank (the insertedAt field of   *)
(* the test item), a pointer is a node identifier and the nil pointer is   *)
(* Nil.  Level L of the Go code (0-based) is index L+1 of the TLA+         *)
(* sequences heads and forward[n].  A node that no head and no forward     *)
(* pointer reaches is garbage and leaves the state (the Go collector).     *)
(***************************************************************************)
EXTENDS Integers, Sequences, FiniteSets, TLC

\* ------------------------------------------------------------------ bounds
NumValues == 3
MaxInserts == 4
MaxHeight == 3

Values == 1..NumValues
Nil == 0
Word == 32

VARIABLES heads, value, forward, insertedAt, slice, ret

vars == <<heads, value, forward, insertedAt, slice, ret>>

\* ----------------------------------------------------------------- helpers
\* a value the comparator passed to New mishandles; Spec never uses it
BadValue == NumValues + 1

\* ssl.cmp: the comparator of the tests, -1 when a < b, 0 when a = b, 1 when
\* a > b; in breach of the contract of Cmp it answers 2 when an argument is
\* BadValue
cmp(a, b) ==
    IF a = BadValue \/ b = BadValue THEN 2
    ELSE IF a < b THEN -1 ELSE IF a = b THEN 0 ELSE 1

\* make([]*node, k, k): k nil pointers
nils(k) == [i \in 1..k |-> Nil]

\* bits.TrailingZeros32
RECURSIVE TrailingZeros32(_)
TrailingZeros32(x) ==
    IF x = 0 THEN Word
    ELSE IF x % 2 = 1 THEN 0
    ELSE 1 + TrailingZeros32(x \div 2)

\* faulty variant of newHeight: a count of zero trailing bits is not raised
\* to 1
newHeightFromZero(rnd, headsLen) ==
    IF TrailingZeros32(rnd) <= headsLen THEN TrailingZeros32(rnd) ELSE headsLen + 1

\* faulty variant of newHeight: the height is not capped at len(ssl.heads) + 1
newHeightNoCap(rnd, headsLen) ==
    IF TrailingZeros32(rnd) = 0 THEN 1 ELSE TrailingZeros32(rnd)

\* newHeight, for the draw rnd and the current len(ssl.heads)
newHeight(rnd, headsLen) ==
    LET height == TrailingZeros32(rnd)
    IN  IF height = 0 THEN 1
        ELSE IF height <= headsLen THEN height
        ELSE headsLen + 1

\* faulty variant of insertHead: the new head is not pointed at the old one
insertHeadAlone(st, level, newNode) ==
    [st EXCEPT !.heads[level + 1] = newNode]

\* ssl.insertHead(level, newNode) on the pair st = [heads, forward, ...]
insertHead(st, level, newNode) ==
    [st EXCEPT !.forward[newNode][level + 1] = st.heads[level + 1],
               !.heads[level + 1] = newNode]

\* faulty variant of insertAfter: the new node is not pointed at the old
\* successor
insertAfterAlone(fw, ssln, level, newNode) ==
    [fw EXCEPT ![ssln][level + 1] = newNode]

\* ssln.insertAfter(level, newNode) on the forward tables fw
insertAfter(fw, ssln, level, newNode) ==
    [fw EXCEPT ![newNode][level + 1] = fw[ssln][level + 1],
               ![ssln][level + 1] = newNode]

\* ------------------------------------------------------------ findFirstNode
\* faulty variant of findFirstWalk: the comparator is called twice on every
\* node, once for "smaller" and once for "equal"
RECURSIVE findFirstWalkTwice(_, _, _, _, _, _)
findFirstWalkTwice(fw, val, v, level, smallerNode, cmps) ==
    LET nxt == fw[smallerNode][level + 1]
    IN  IF nxt = Nil
        THEN [hit |-> Nil, smallerNode |-> smallerNode, cmps |-> cmps, panic |-> FALSE]
        ELSE IF cmp(val[nxt], v) = -1
        THEN findFirstWalkTwice(fw, val, v, level, nxt, cmps + 2)
        ELSE [hit |-> IF cmp(val[nxt], v) = 0 THEN nxt ELSE Nil,
              smallerNode |-> smallerNode, cmps |-> cmps + 2,
              panic |-> cmp(val[nxt], v) \notin {0, 1}]

\* the inner loop of findFirstNode: walk right on one level from smallerNode
RECURSIVE findFirstWalk(_, _, _, _, _, _)
findFirstWalk(fw, val, v, level, smallerNode, cmps) ==
    LET nxt == fw[smallerNode][level + 1]
    IN  IF nxt = Nil
        THEN [hit |-> Nil, smallerNode |-> smallerNode, cmps |-> cmps, panic |-> FALSE]
        ELSE LET c == cmp(val[nxt], v)
             IN  IF c = -1 THEN findFirstWalk(fw, val, v, level, nxt, cmps + 1)
                 ELSE IF c = 0
                 THEN [hit |-> nxt, smallerNode |-> smallerNode, cmps |-> cmps + 1, panic |-> FALSE]
                 ELSE IF c = 1
                 THEN [hit |-> Nil, smallerNode |-> smallerNode, cmps |-> cmps + 1, panic |-> FALSE]
                 ELSE [hit |-> Nil, smallerNode |-> smallerNode, cmps |-> cmps + 1, panic |-> TRUE]

\* faulty variant of findFirstLevels: a head that compares equal is taken for
\* a smaller node (case 0 handled as case -1)
RECURSIVE findFirstLevelsLe(_, _, _, _, _, _, _)
findFirstLevelsLe(hd, fw, val, v, level, smallerNode, cmps) ==
    IF level < 0 THEN [node |-> Nil, cmps |-> cmps, panic |-> FALSE]
    ELSE IF smallerNode = Nil /\ cmp(val[hd[level + 1]], v) = 1
    THEN findFirstLevelsLe(hd, fw, val, v, level - 1, Nil, cmps + 1)
    ELSE IF findFirstWalk(fw, val, v, level,
                          IF smallerNode = Nil THEN hd[level + 1] ELSE smallerNode,
                          cmps).hit # Nil
    THEN [node |-> findFirstWalk(fw, val, v, level,
                          IF smallerNode = Nil THEN hd[level + 1] ELSE smallerNode,
                          cmps).hit,
          cmps |-> cmps, panic |-> FALSE]
    ELSE findFirstLevelsLe(hd, fw, val, v, level - 1,
             findFirstWalk(fw, val, v, level,
                           IF smallerNode = Nil THEN hd[level + 1] ELSE smallerNode,
                           cmps).smallerNode, cmps)

\* the level loop of findFirstNode, from level down to 0; findFirstNext is the
\* end of one iteration, w being the outcome of the walk on that level
RECURSIVE findFirstLevels(_, _, _, _, _, _, _)
findFirstNext(hd, fw, val, v, level, w) ==
    IF w.panic THEN [node |-> Nil, cmps |-> w.cmps, panic |-> TRUE]
    ELSE IF w.hit # Nil THEN [node |-> w.hit, cmps |-> w.cmps, panic |-> FALSE]
    ELSE findFirstLevels(hd, fw, val, v, level - 1, w.smallerNode, w.cmps)

findFirstLevels(hd, fw, val, v, level, smallerNode, cmps) ==
    IF level < 0 THEN [node |-> Nil, cmps |-> cmps, panic |-> FALSE]
    ELSE IF smallerNode # Nil
    THEN findFirstNext(hd, fw, val, v, level,
                       findFirstWalk(fw, val, v, level, smallerNode, cmps))
    ELSE
      LET head == hd[level + 1]
          c == cmp(val[head], v)
      IN  IF c = -1
          THEN findFirstNext(hd, fw, val, v, level,
                             findFirstWalk(fw, val, v, level, head, cmps + 1))
          ELSE IF c = 0 THEN [node |-> head, cmps |-> cmps + 1, panic |-> FALSE]
          ELSE IF c = 1 THEN findFirstLevels(hd, fw, val, v, level - 1, Nil, cmps + 1)
          ELSE [node |-> Nil, cmps |-> cmps + 1, panic |-> TRUE]

findFirstNode(hd, fw, val, v) ==
    findFirstLevels(hd, fw, val, v, Len(hd) - 1, Nil, 0)

\* ------------------------------------------------------------------- Insert
\* the two cursor loops of Insert: move right on one level while the next
\* node compares c to the inserted value
RECURSIVE advance(_, _, _, _, _, _)
advance(fw, val, v, level, node, c) ==
    IF node # Nil /\ fw[node][level + 1] # Nil /\ cmp(val[fw[node][level + 1]], v) = c
    THEN advance(fw, val, v, level, fw[node][level + 1], c)
    ELSE node

\* faulty variant of cursorEq: the loop that moves largestEq to the last equal
\* node of the level is missing
cursorEqNoLoop(fw, val, v, level, largestSmaller, largestEq) ==
    IF largestEq = Nil /\ fw[largestSmaller][level + 1] # Nil
       /\ cmp(val[fw[largestSmaller][level + 1]], v) = 0
    THEN fw[largestSmaller][level + 1]
    ELSE largestEq

\* largestEq after the `if largestEq == nil && ...` statement and the loop
\* that follows it
cursorEq(fw, val, v, level, largestSmaller, largestEq) ==
    advance(fw, val, v, level,
            IF largestEq = Nil /\ fw[largestSmaller][level + 1] # Nil
               /\ cmp(val[fw[largestSmaller][level + 1]], v) = 0
            THEN fw[largestSmaller][level + 1]
            ELSE largestEq,
            0)

\* faulty variant of linkExisting: a grown existing node is never linked after
\* largestSmaller
linkExistingNever(fw, level, largestSmaller, existing) == fw

\* `if largestSmaller != nil { if existing != nil { ... } }`: the grown
\* existing node is linked after largestSmaller
linkExisting(fw, level, largestSmaller, existing) ==
    IF largestSmaller # Nil /\ existing # Nil
       /\ fw[largestSmaller][level + 1] # existing
       /\ level < Len(fw[existing])
    THEN insertAfter(fw, largestSmaller, level, existing)
    ELSE fw

\* faulty variant of linkAfterEq: the bottom level is left out
linkAfterEqAbove(fw, level, largestEq, nodeToInsert) ==
    IF largestEq # Nil /\ level > 0 /\ level < Len(fw[nodeToInsert])
    THEN insertAfter(fw, largestEq, level, nodeToInsert)
    ELSE fw

\* `if largestEq != nil { ... }`: the new node is linked after largestEq
linkAfterEq(fw, level, largestEq, nodeToInsert) ==
    IF largestEq # Nil /\ level < Len(fw[nodeToInsert])
    THEN insertAfter(fw, largestEq, level, nodeToInsert)
    ELSE fw

\* faulty variant of linkAfterSmaller: largestEq == nil is not tested
linkAfterSmallerAlways(fw, level, largestSmaller, largestEq, nodeToInsert) ==
    IF largestSmaller # Nil /\ level < Len(fw[nodeToInsert])
    THEN insertAfter(fw, largestSmaller, level, nodeToInsert)
    ELSE fw

\* `if largestSmaller != nil && largestEq == nil { ... }`: the new node is
\* linked after largestSmaller
linkAfterSmaller(fw, level, largestSmaller, largestEq, nodeToInsert) ==
    IF largestSmaller # Nil /\ largestEq = Nil /\ level < Len(fw[nodeToInsert])
    THEN insertAfter(fw, largestSmaller, level, nodeToInsert)
    ELSE fw

\* the three splices of one level, for the final cursors of that level
spliceLinks(st, level, nodeToInsert, existing, largestSmaller, largestEq) ==
    [st EXCEPT !.forward =
                  linkAfterSmaller(
                      linkAfterEq(linkExisting(st.forward, level, largestSmaller, existing),
                                  level, largestEq, nodeToInsert),
                      level, largestSmaller, largestEq, nodeToInsert),
               !.largestSmaller = largestSmaller,
               !.largestEq = largestEq]

\* the part of one level after the loop on largestSmaller, which left the
\* cursor on largestSmaller; dereferencing a nil largestSmaller panics
spliceFrom(st, val, v, level, nodeToInsert, existing, largestSmaller) ==
    IF st.largestEq = Nil /\ largestSmaller = Nil
    THEN [st EXCEPT !.panic = TRUE]
    ELSE spliceLinks(st, level, nodeToInsert, existing, largestSmaller,
                     cursorEq(st.forward, val, v, level, largestSmaller, st.largestEq))

\* faulty variant of insertSplice: the loop that moves largestSmaller to the
\* last smaller node of the level is missing
insertSpliceNoSmallerLoop(st, val, v, level, nodeToInsert, existing) ==
    spliceFrom(st, val, v, level, nodeToInsert, existing, st.largestSmaller)

\* the body of the descent loop of Insert for one level, after the head switch
\* did not `continue`; st carries heads, forward and the two cursors
insertSplice(st, val, v, level, nodeToInsert, existing) ==
    spliceFrom(st, val, v, level, nodeToInsert, existing,
               advance(st.forward, val, v, level, st.largestSmaller, -1))

\* case 1 of the head switch of Insert: the new node, then the existing node,
\* become the head of the level when they have a slot for it
headLink(st, level, node) ==
    IF node # Nil /\ level < Len(st.forward[node])
    THEN insertHead(st, level, node)
    ELSE st

\* cases -1 and 0 of the head switch of Insert: the cursors start at the head
headCursors(st, head, c) ==
    IF c = -1 /\ st.largestSmaller = Nil THEN [st EXCEPT !.largestSmaller = head]
    ELSE IF c = 0 /\ st.largestEq = Nil THEN [st EXCEPT !.largestEq = head]
    ELSE st

\* the descent loop of Insert, from level down to 0
RECURSIVE insertDescent(_, _, _, _, _, _)
insertDescent(st, val, v, level, nodeToInsert, existing) ==
    IF level < 0 \/ st.panic THEN st
    ELSE IF st.largestSmaller # Nil /\ st.largestEq # Nil
    THEN insertDescent(insertSplice(st, val, v, level, nodeToInsert, existing),
                       val, v, level - 1, nodeToInsert, existing)
    ELSE IF cmp(val[st.heads[level + 1]], v) = 1
    THEN insertDescent(headLink(headLink(st, level, nodeToInsert), level, existing),
                       val, v, level - 1, nodeToInsert, existing)
    ELSE insertDescent(
             insertSplice(headCursors(st, st.heads[level + 1],
                                      cmp(val[st.heads[level + 1]], v)),
                          val, v, level, nodeToInsert, existing),
             val, v, level - 1, nodeToInsert, existing)

\* faulty variant of insertHeights: the new node always gets the drawn height
\* and the existing equal node is never grown (a textbook skip list)
insertHeightsTextbook(fw, existing, nodeToInsert, h) ==
    [n \in DOMAIN fw \cup {nodeToInsert} |->
        IF n = nodeToInsert THEN nils(h) ELSE fw[n]]

\* faulty variant of insertHeights: when the existing equal node is grown the
\* new node gets the drawn height too
insertHeightsBothGrow(fw, existing, nodeToInsert, h) ==
    IF existing # Nil /\ h > Len(fw[existing])
    THEN [n \in DOMAIN fw \cup {nodeToInsert} |->
            IF n = nodeToInsert THEN nils(h)
            ELSE IF n = existing THEN fw[n] \o nils(h - Len(fw[n]))
            ELSE fw[n]]
    ELSE [n \in DOMAIN fw \cup {nodeToInsert} |->
            IF n = nodeToInsert THEN nils(h) ELSE fw[n]]

\* the forward tables after the height assignment of Insert
insertHeights(fw, existing, nodeToInsert, h) ==
    IF existing # Nil /\ h > Len(fw[existing])
    THEN [n \in DOMAIN fw \cup {nodeToInsert} |->
            IF n = nodeToInsert THEN nils(Len(fw[existing]))
            ELSE IF n = existing THEN fw[n] \o nils(h - Len(fw[n]))
            ELSE fw[n]]
    ELSE [n \in DOMAIN fw \cup {nodeToInsert} |->
            IF n = nodeToInsert THEN nils(h) ELSE fw[n]]

\* faulty variant of insertGrowHeads: the new top head is always the new node
insertGrowHeadsNew(hd, existing, nodeToInsert, h) ==
    IF h > Len(hd) THEN Append(hd, nodeToInsert) ELSE hd

\* heads after the growth step of Insert
insertGrowHeads(hd, existing, nodeToInsert, h) ==
    IF h > Len(hd)
    THEN Append(hd, IF existing # Nil THEN existing ELSE nodeToInsert)
    ELSE hd

\* Insert after `existing := ssl.findFirstNode(value)`
insertWith(hd, fw, val, v, nodeToInsert, h, existing) ==
    insertDescent([heads |-> insertGrowHeads(hd, existing, nodeToInsert, h),
                   forward |-> insertHeights(fw, existing, nodeToInsert, h),
                   largestSmaller |-> Nil, largestEq |-> Nil, panic |-> FALSE],
                  val, v, Len(hd) - 1, nodeToInsert, existing)

\* Insert(value) with the height h drawn by newHeight: the resulting heads and
\* forward tables (and whether the call panicked)
insertResult(hd, fw, val, v, nodeToInsert, h) ==
    IF findFirstNode(hd, fw, val, v).panic
    THEN [heads |-> hd, forward |-> fw, largestSmaller |-> Nil, largestEq |-> Nil,
          panic |-> TRUE]
    ELSE insertWith(hd, fw, val, v, nodeToInsert, h, findFirstNode(hd, fw, val, v).node)

\* faulty variant of deletePromote: the next logical dupe is grown with nil
\* links instead of the links of the node being deleted
deletePromoteNil(fw, level, nodeToDelete) ==
    LET nextLogicalDupe == fw[nodeToDelete][1]
    IN  IF fw[nodeToDelete][level + 1] # nextLogicalDupe
           /\ Len(fw[nodeToDelete]) > Len(fw[nextLogicalDupe])
        THEN [fw EXCEPT ![nextLogicalDupe] =
                 @ \o nils(Len(fw[nodeToDelete]) - Len(@))]
        ELSE fw

\* -------------------------------------------------------------- DeleteFirst
\* "we make the next logical dupe copy the tree of the node we are deleting":
\* the forward tables after the optional growth of nodeToDelete.forward[0]
deletePromote(fw, level, nodeToDelete) ==
    LET nextLogicalDupe == fw[nodeToDelete][1]
    IN  IF fw[nodeToDelete][level + 1] # nextLogicalDupe
           /\ Len(fw[nodeToDelete]) > Len(fw[nextLogicalDupe])
        THEN [fw EXCEPT ![nextLogicalDupe] =
                 @ \o SubSeq(fw[nodeToDelete], Len(@) + 1, Len(fw[nodeToDelete]))]
        ELSE fw

\* faulty variant of deleteShrink: the node after nodeToDelete on the bottom
\* level is shortened instead of nodeToDelete
deleteShrinkNext(fw, nodeToDelete) ==
    IF fw[nodeToDelete][1] = Nil THEN fw
    ELSE [fw EXCEPT ![fw[nodeToDelete][1]] = SubSeq(@, 1, Len(@) - 1)]

\* nodeToDelete.forward[:len(nodeToDelete.forward)-1]
deleteShrink(fw, nodeToDelete) ==
    [fw EXCEPT ![nodeToDelete] = SubSeq(@, 1, Len(@) - 1)]

\* faulty variant of deleteHead: the head is unlinked as in a textbook skip
\* list, the level's head becoming its successor on that level
deleteHeadUnlink(st, val, v, level) ==
    LET fw == st.forward
        nodeToDelete == st.heads[level + 1]
        nxt == fw[nodeToDelete][level + 1]
        hd1 == [st.heads EXCEPT ![level + 1] = nxt]
    IN  [st EXCEPT !.forward = deleteShrink(fw, nodeToDelete),
                   !.heads = IF nxt = Nil THEN SubSeq(hd1, 1, Len(hd1) - 1) ELSE hd1]

\* faulty variant of deleteHead: heads keeps its length when the level loses
\* its only node
deleteHeadKeepLevel(st, val, v, level) ==
    LET fw == st.forward
        nodeToDelete == st.heads[level + 1]
        nxt == fw[nodeToDelete][level + 1]
    IN  IF nxt # Nil /\ cmp(val[nxt], v) = 0
        THEN [st EXCEPT !.forward = deletePromote(fw, level, nodeToDelete),
                        !.heads[level + 1] = fw[nodeToDelete][1]]
        ELSE [st EXCEPT !.forward = deleteShrink(fw, nodeToDelete),
                        !.heads[level + 1] = nxt]

\* case 0 of the head switch of DeleteFirst: the head of the level is deleted
deleteHead(st, val, v, level) ==
    LET fw == st.forward
        nodeToDelete == st.heads[level + 1]
        nxt == fw[nodeToDelete][level + 1]
    IN  IF nxt # Nil /\ cmp(val[nxt], v) = 0
        THEN [st EXCEPT !.forward = deletePromote(fw, level, nodeToDelete),
                        !.heads[level + 1] = fw[nodeToDelete][1]]
        ELSE LET hd1 == [st.heads EXCEPT ![level + 1] = nxt]
             IN  [st EXCEPT !.forward = deleteShrink(fw, nodeToDelete),
                            !.heads = IF nxt = Nil
                                      THEN SubSeq(hd1, 1, Len(hd1) - 1)
                                      ELSE hd1]

\* faulty variant of deleteAt: the node after smallerNode is deleted when it
\* compares greater or equal
deleteAtGe(st, val, v, level, smallerNode) ==
    LET fw == st.forward
    IN  IF smallerNode # Nil /\ fw[smallerNode][level + 1] # Nil
           /\ cmp(val[fw[smallerNode][level + 1]], v) \in {0, 1}
        THEN LET nodeToDelete == fw[smallerNode][level + 1]
                 nxt == fw[nodeToDelete][level + 1]
             IN  IF nxt # Nil /\ cmp(val[nodeToDelete], val[nxt]) = 0
                 THEN [st EXCEPT !.smallerNode = smallerNode,
                                 !.forward =
                          [deletePromote(fw, level, nodeToDelete)
                              EXCEPT ![smallerNode][level + 1] = fw[nodeToDelete][1]]]
                 ELSE [st EXCEPT !.smallerNode = smallerNode,
                                 !.forward =
                          [deleteShrink(fw, nodeToDelete)
                              EXCEPT ![smallerNode][level + 1] = nxt]]
        ELSE [st EXCEPT !.smallerNode = smallerNode]

\* the last statement of the level loop of DeleteFirst: the node after
\* smallerNode is deleted when it compares equal
deleteAt(st, val, v, level, smallerNode) ==
    LET fw == st.forward
    IN  IF smallerNode # Nil /\ fw[smallerNode][level + 1] # Nil
           /\ cmp(val[fw[smallerNode][level + 1]], v) = 0
        THEN LET nodeToDelete == fw[smallerNode][level + 1]
                 nxt == fw[nodeToDelete][level + 1]
             IN  IF nxt # Nil /\ cmp(val[nodeToDelete], val[nxt]) = 0
                 THEN [st EXCEPT !.smallerNode = smallerNode,
                                 !.forward =
                          [deletePromote(fw, level, nodeToDelete)
                              EXCEPT ![smallerNode][level + 1] = fw[nodeToDelete][1]]]
                 ELSE [st EXCEPT !.smallerNode = smallerNode,
                                 !.forward =
                          [deleteShrink(fw, nodeToDelete)
                              EXCEPT ![smallerNode][level + 1] = nxt]]
        ELSE [st EXCEPT !.smallerNode = smallerNode]

\* faulty variant of deleteAfter: the node after smallerNode is deleted on the
\* bottom level only
deleteAfterBottom(st, val, v, level) ==
    IF level = 0
    THEN deleteAt(st, val, v, level, advance(st.forward, val, v, level, st.smallerNode, -1))
    ELSE [st EXCEPT !.smallerNode =
                        advance(st.forward, val, v, level, st.smallerNode, -1)]

\* the part of the level loop of DeleteFirst after the head switch: the loop
\* on smallerNode, then the deletion
deleteAfter(st, val, v, level) ==
    deleteAt(st, val, v, level, advance(st.forward, val, v, level, st.smallerNode, -1))

\* the level loop of DeleteFirst, from level down to 0
RECURSIVE deleteDescent(_, _, _, _)
deleteDescent(st, val, v, level) ==
    IF level < 0 THEN st
    ELSE IF st.smallerNode # Nil
    THEN deleteDescent(deleteAfter(st, val, v, level), val, v, level - 1)
    ELSE
      LET head == st.heads[level + 1]
          c == cmp(val[head], v)
      IN  IF c = 1 THEN deleteDescent(st, val, v, level - 1)
          ELSE IF c = -1
          THEN deleteDescent(deleteAfter([st EXCEPT !.smallerNode = head], val, v, level),
                             val, v, level - 1)
          ELSE IF c = 0
          THEN deleteDescent(deleteAfter(deleteHead(st, val, v, level), val, v, level),
                             val, v, level - 1)
          ELSE deleteDescent(deleteAfter(st, val, v, level), val, v, level - 1)

\* DeleteFirst(value): the resulting heads and forward tables
deleteResult(hd, fw, val, v) ==
    deleteDescent([heads |-> hd, forward |-> fw, smallerNode |-> Nil],
                  val, v, Len(hd) - 1)

\* ------------------------------------------------------------- First / Last
\* the walk of Last: right while possible, then one level down
RECURSIVE lastWalk(_, _, _)
lastWalk(fw, node, level) ==
    IF level < 0 THEN node
    ELSE IF fw[node][level + 1] # Nil
    THEN lastWalk(fw, fw[node][level + 1], level)
    ELSE lastWalk(fw, node, level - 1)

\* faulty variant of firstResult: found is true on the empty list too
firstResultAlways(hd) ==
    IF Len(hd) = 0 THEN [found |-> TRUE, node |-> Nil, panic |-> FALSE]
    ELSE [found |-> TRUE, node |-> hd[1], panic |-> FALSE]

\* faulty variant of firstResult: the head of the top level is returned
firstResultTop(hd) ==
    IF Len(hd) = 0 THEN [found |-> FALSE, node |-> Nil, panic |-> FALSE]
    ELSE [found |-> TRUE, node |-> hd[Len(hd)], panic |-> FALSE]

\* First(): found, and the node whose value is returned
firstResult(hd) ==
    IF Len(hd) = 0 THEN [found |-> FALSE, node |-> Nil, panic |-> FALSE]
    ELSE [found |-> TRUE, node |-> hd[1], panic |-> FALSE]

\* faulty variant of lastResult: the walk stays on the top level
lastResultNoDescent(hd, fw) ==
    IF Len(hd) = 0 THEN [found |-> FALSE, node |-> Nil, panic |-> FALSE]
    ELSE [found |-> TRUE,
          node |-> advance(fw, [n \in DOMAIN fw |-> 0], 0, Len(hd) - 1, hd[Len(hd)], 0),
          panic |-> FALSE]

\* Last(): found, and the node whose value is returned
lastResult(hd, fw) ==
    IF Len(hd) = 0 THEN [found |-> FALSE, node |-> Nil, panic |-> FALSE]
    ELSE [found |-> TRUE, node |-> lastWalk(fw, hd[Len(hd)], Len(hd) - 1),
          panic |-> FALSE]

\* ------------------------------------------------------ garbage collection
\* the nodes some pointer path from the set S reaches
RECURSIVE reach(_, _)
reach(fw, S) ==
    LET T == (S \cup UNION {{fw[n][i] : i \in DOMAIN fw[n]} : n \in S}) \ {Nil}
    IN  IF T = S THEN S ELSE reach(fw, T)

\* the nodes the list keeps alive
live(hd, fw) == reach(fw, {hd[i] : i \in DOMAIN hd} \ {Nil})

\* a function restricted to the nodes of alive
restrict(f, alive) == [n \in alive |-> f[n]]

\* a node of before that is no longer in after (Nil when there is none): the
\* node DeleteFirst released for reclamation
released(before, after) ==
    IF before \ after = {} THEN Nil ELSE CHOOSE n \in before \ after : TRUE

\* ------------------------------------------------- reference slice (TestFuzz)
\* sort.Search(len(s), pred): the smallest 0-based index at which the value
\* reaches bound, len(s) if there is none
sortSearch(s, val, bound) ==
    IF \E i \in 1..Len(s) : val[s[i]] >= bound
    THEN (CHOOSE i \in 1..Len(s) :
              /\ val[s[i]] >= bound
              /\ \A j \in 1..(i - 1) : val[s[j]] < bound) - 1
    ELSE Len(s)

\* the insert branch of TestFuzz on the sorted slice
sliceInsert(s, val, item, v) ==
    LET pos == sortSearch(s, val, v + 1)
    IN  SubSeq(s, 1, pos) \o <<item>> \o SubSeq(s, pos + 1, Len(s))

\* the delete branch of TestFuzz on the sorted slice
sliceDelete(s, val, v) ==
    LET pos == sortSearch(s, val, v)
    IN  IF pos < Len(s) /\ val[s[pos + 1]] = v
        THEN SubSeq(s, 1, pos) \o SubSeq(s, pos + 2, Len(s))
        ELSE s

\* ------------------------------------------------------------ state machine
\* the draws of randUint32 the model tries: 0 and the powers of two the tests
\* use (fixedRand(1 << k))
RECURSIVE pow2(_)
pow2(k) == IF k = 0 THEN 1 ELSE 2 * pow2(k - 1)

Draws == {0} \cup {pow2(k) : k \in 0..MaxHeight}

\* a node whose forward table is longer in after than in before (Nil when
\* there is none): the node a call made higher
raised(before, after) ==
    IF \E n \in DOMAIN before \cap DOMAIN after : Len(after[n]) > Len(before[n])
    THEN CHOOSE n \in DOMAIN before \cap DOMAIN after : Len(after[n]) > Len(before[n])
    ELSE Nil

\* the structure an Insert found, kept when it held no node equal to the
\* inserted value; NoSnapshot otherwise
NoSnapshot == [fresh |-> FALSE, heads |-> <<>>, forward |-> <<>>]

snapshot(hd, fw, val, v) ==
    IF \E n \in DOMAIN fw : cmp(val[n], v) = 0 THEN NoSnapshot
    ELSE [fresh |-> TRUE, heads |-> hd, forward |-> fw]

\* ret records the last call: its name, argument and draw, what it returned
\* (found, node: the node inserted, released or returned), and for Insert and
\* DeleteFirst len(heads) before the call, the height newHeight drew and the
\* node the call made higher; for DeleteFirst the height the released node
\* had (dropped) and whether the call directly follows the Insert of its
\* argument into a list that held no equal node (undoes); for that Insert the
\* structure it found (before); for FindFirst the number of comparator calls
NoRet == [op |-> "New", arg |-> 0, rnd |-> 0, found |-> FALSE, node |-> Nil,
          panic |-> FALSE, levels |-> 0, height |-> 0, grown |-> Nil,
          dropped |-> 0, cmps |-> 0, before |-> NoSnapshot, undoes |-> FALSE]

\* New(cmp)
Init ==
    /\ heads = <<>>
    /\ value = <<>>
    /\ forward = <<>>
    /\ insertedAt = 0
    /\ slice = <<>>
    /\ ret = NoRet

\* the state after Insert, res being the outcome of the call; a call that
\* panicked in findFirstNode left the list as it was
InsertDone(v, rnd, nodeToInsert, h, val, res) ==
    /\ heads' = res.heads
    /\ forward' = res.forward
    /\ value' = restrict(val, DOMAIN res.forward)
    /\ slice' = IF res.panic THEN slice ELSE sliceInsert(slice, val, nodeToInsert, v)
    /\ ret' = [op |-> "Insert", arg |-> v, rnd |-> rnd, found |-> FALSE,
               node |-> nodeToInsert, panic |-> res.panic, levels |-> Len(heads),
               height |-> h, grown |-> raised(forward, res.forward),
               dropped |-> 0, cmps |-> 0,
               before |-> snapshot(heads, forward, value, v), undoes |-> FALSE]
    /\ insertedAt' = insertedAt + 1

\* the call of Insert on the new node, val being the values with the new one
InsertCall(v, rnd, nodeToInsert, h, val) ==
    InsertDone(v, rnd, nodeToInsert, h, val,
               insertResult(heads, forward, val, v, nodeToInsert, h))

\* sl.Insert(item{insertedAt, v}) with the draw rnd, followed by the slice
\* update of TestFuzz
Insert(v, rnd) ==
    /\ insertedAt < MaxInserts
    /\ newHeight(rnd, Len(heads)) <= MaxHeight
    /\ InsertCall(v, rnd, insertedAt + 1, newHeight(rnd, Len(heads)),
                  [n \in DOMAIN value \cup {insertedAt + 1} |->
                      IF n = insertedAt + 1 THEN v ELSE value[n]])

\* the state after DeleteFirst, res being the outcome of the call and alive
\* the nodes still reachable
DeleteFirstDone(v, res, alive) ==
    /\ heads' = res.heads
    /\ forward' = restrict(res.forward, alive)
    /\ value' = restrict(value, alive)
    /\ slice' = sliceDelete(slice, value, v)
    /\ ret' = [op |-> "DeleteFirst", arg |-> v, rnd |-> 0, found |-> FALSE,
               node |-> released(DOMAIN forward, alive), panic |-> FALSE,
               levels |-> Len(heads), height |-> 0,
               grown |-> raised(forward, restrict(res.forward, alive)),
               dropped |-> IF DOMAIN forward \ alive = {} THEN 0
                           ELSE Len(forward[released(DOMAIN forward, alive)]),
               cmps |-> 0, before |-> NoSnapshot,
               undoes |-> ret.op = "Insert" /\ ret.arg = v /\ ret.before.fresh]
    /\ UNCHANGED insertedAt

DeleteFirstCall(v, res) == DeleteFirstDone(v, res, live(res.heads, res.forward))

\* sl.DeleteFirst(item{value: v}), followed by the slice update of TestFuzz
DeleteFirst(v) == DeleteFirstCall(v, deleteResult(heads, forward, value, v))

\* the state after a read whose outcome is r
ReadDone(op, v, r) ==
    /\ ret' = [op |-> op, arg |-> v, rnd |-> 0, found |-> r.found, node |-> r.node,
               panic |-> r.panic, levels |-> 0, height |-> 0, grown |-> Nil,
               dropped |-> 0, cmps |-> IF "cmps" \in DOMAIN r THEN r.cmps ELSE 0,
               before |-> NoSnapshot,
               undoes |-> FALSE]
    /\ UNCHANGED <<heads, value, forward, insertedAt, slice>>

\* FindFirst: found, and the node whose value is returned
findFirstResult(hd, fw, val, v) ==
    [found |-> findFirstNode(hd, fw, val, v).node # Nil,
     node |-> findFirstNode(hd, fw, val, v).node,
     panic |-> findFirstNode(hd, fw, val, v).panic,
     cmps |-> findFirstNode(hd, fw, val, v).cmps]

\* sl.FindFirst(item{value: v})
FindFirst(v) == ReadDone("FindFirst", v, findFirstResult(heads, forward, value, v))

\* sl.First()
First == ReadDone("First", 0, firstResult(heads))

\* sl.Last()
Last == ReadDone("Last", 0, lastResult(heads, forward))

Next ==
    \/ \E v \in Values, rnd \in Draws : Insert(v, rnd)
    \/ \E v \in Values : DeleteFirst(v)
    \/ \E v \in Values : FindFirst(v)
    \/ First
    \/ Last

Spec == Init /\ [][Next]_vars

\* the same calls on a list whose comparator breaks the contract of Cmp for
\* BadValue
NextFaulty ==
    \/ \E v \in Values \cup {BadValue}, rnd \in Draws : Insert(v, rnd)
    \/ \E v \in Values \cup {BadValue} : DeleteFirst(v)
    \/ \E v \in Values \cup {BadValue} : FindFirst(v)
    \/ First
    \/ Last

SpecFaulty == Init /\ [][NextFaulty]_vars

\* --------------------------------------------------------------- observers
\* the nodes of one level, read left to right from its head; a chain that does
\* not end within fuel steps is cut and marked with -1, one that reaches a node
\* without a slot for the level is cut and marked with -2
RECURSIVE chainFrom(_, _, _, _)
chainFrom(fw, node, level, fuel) ==
    IF node = Nil THEN <<>>
    ELSE IF fuel = 0 THEN <<-1>>
    ELSE IF node \notin DOMAIN fw \/ level + 1 \notin DOMAIN fw[node] THEN <<node, -2>>
    ELSE <<node>> \o chainFrom(fw, fw[node][level + 1], level, fuel - 1)

chain(hd, fw, level) == chainFrom(fw, hd[level + 1], level, MaxInserts + 1)

bottom(hd, fw) == IF Len(hd) = 0 THEN <<>> ELSE chain(hd, fw, 0)

\* the elements of a sequence
elems(s) == {s[i] : i \in DOMAIN s}

\* the nodes present in the list: those of the bottom level
present(hd, fw) == elems(bottom(hd, fw))

\* the present nodes that compare equal to v
equalTo(hd, fw, val, v) == {n \in present(hd, fw) : cmp(val[n], v) = 0}

\* the earliest inserted node of a non-empty set, Nil for the empty set
earliest(S) == IF S = {} THEN Nil ELSE CHOOSE n \in S : \A m \in S : n <= m

\* the latest inserted node of a non-empty set, Nil for the empty set
latest(S) == IF S = {} THEN Nil ELSE CHOOSE n \in S : \A m \in S : n >= m

\* the number of levels of a node
height(fw, n) == Len(fw[n])

\* a sequence without the element x
RECURSIVE without(_, _)
without(s, x) ==
    IF s = <<>> THEN <<>>
    ELSE IF Head(s) = x THEN without(Tail(s), x)
    ELSE <<Head(s)>> \o without(Tail(s), x)

\* the index of x in the sequence s (0 when x is not in s)
indexOf(s, x) == IF x \in elems(s) THEN CHOOSE i \in DOMAIN s : s[i] = x ELSE 0

\* ------------------------------------------------------------------ claims

\* C1: after every Insert and DeleteFirst the bottom level, read left to right
\* from heads[0], is exactly the reference slice kept sorted by (value,
\* insertion order) under the same calls, and heads is empty when the
\* reference is empty.
C1_BottomEqualsReference ==
    /\ bottom(heads, forward) = slice
    /\ (slice = <<>> => heads = <<>>)

\* C1 witness: a DeleteFirst removed a node and left duplicates behind, with a
\* smaller value still in front of them.
C1_Witness ==
    /\ ret.op = "DeleteFirst"
    /\ ret.node # Nil
    /\ Len(slice) >= 3
    /\ \E i \in 1..(Len(slice) - 1) : value[slice[i]] = value[slice[i + 1]]
    /\ \E i \in 1..(Len(slice) - 1) : value[slice[i]] < value[slice[i + 1]]

\* the answer FindFirst owes for the set E of present nodes equal to its
\* argument
findFirstAnswers(r, E) ==
    /\ r.found <=> E # {}
    /\ r.node = earliest(E)
    /\ ~r.panic

\* C2: FindFirst(v) returns found = true with the earliest inserted present
\* element equal to v, and found = false exactly when no present element is
\* equal to v.
C2_FindFirstEarliest ==
    ret.op = "FindFirst" =>
        findFirstAnswers(ret, equalTo(heads, forward, value, ret.arg))

\* C2 witness: FindFirst found a value that is present twice and is not the
\* smallest value of the list.
C2_Witness ==
    /\ ret.op = "FindFirst"
    /\ ret.found
    /\ Cardinality(equalTo(heads, forward, value, ret.arg)) >= 2
    /\ \E n \in present(heads, forward) : value[n] < ret.arg

\* after is before without the node d, which before holds
removedFrom(before, after, d) ==
    /\ d \in elems(before)
    /\ Len(after) = Len(before) - 1
    /\ after = without(before, d)

\* the effect DeleteFirst owes for the non-empty set E of nodes equal to its
\* argument; next is what FindFirst returns after the call
deletedEarliest(E, before, after, next) ==
    /\ removedFrom(before, after, earliest(E))
    /\ next = earliest(E \ {earliest(E)})

\* C3: DeleteFirst(v) on a list holding an element equal to v removes exactly
\* the earliest inserted one; every other element stays, in the same order,
\* and a following FindFirst(v) returns the next earliest equal element, or
\* not-found when none is left.
C3_DeleteFirstRemovesEarliest ==
    [][(ret'.op = "DeleteFirst" /\ equalTo(heads, forward, value, ret'.arg) # {}) =>
          /\ deletedEarliest(equalTo(heads, forward, value, ret'.arg),
                             bottom(heads, forward), bottom(heads', forward'),
                             findFirstNode(heads', forward', value', ret'.arg).node)
          /\ \A n \in DOMAIN value' : n \in DOMAIN value /\ value'[n] = value[n]
      ]_vars

\* C3 witness: a DeleteFirst released a node while other elements equal to its
\* argument stay in a list of two levels or more.
C3_Witness ==
    /\ ret.op = "DeleteFirst"
    /\ ret.node # Nil
    /\ equalTo(heads, forward, value, ret.arg) # {}
    /\ Len(heads) >= 2

\* after is before with the one new node n somewhere in it
insertedInto(before, after, n) ==
    /\ n \notin elems(before)
    /\ Len(after) = Len(before) + 1
    /\ without(after, n) = before

\* in the chain c every node left of position i compares smaller than or
\* equal to v and every node right of it compares greater
splitAt(c, i, val, v) ==
    \A j \in DOMAIN c :
        /\ (j < i => cmp(val[c[j]], v) \in {-1, 0})
        /\ (j > i => cmp(val[c[j]], v) = 1)

\* the node n is on the well-formed chain c, right of the nodes equal to v
\* and left of the greater ones
placedIn(c, n, val, v) ==
    /\ elems(c) \subseteq DOMAIN val
    /\ n \in elems(c)
    /\ splitAt(c, indexOf(c, n), val, v)

\* C4: Insert(v) adds exactly one new element and changes no other one; at
\* every level the new node occupies, every node to its left compares smaller
\* than or equal to v (so all pre-existing equal nodes are to its left) and
\* every node to its right compares greater.
C4_InsertAfterEquals ==
    [][(ret'.op = "Insert" /\ insertedAt' = insertedAt + 1) =>
          /\ insertedInto(bottom(heads, forward), bottom(heads', forward'), ret'.node)
          /\ ret'.node \in DOMAIN forward'
          /\ value'[ret'.node] = ret'.arg
          /\ \A m \in DOMAIN value : value'[m] = value[m]
          /\ Len(forward'[ret'.node]) >= 1
          /\ \A L \in 0..(Len(forward'[ret'.node]) - 1) :
                placedIn(chain(heads', forward', L), ret'.node, value', ret'.arg)
      ]_vars

\* C4 witness: the node just inserted sits on level 1 between an equal node
\* and a greater node.
C4_Witness ==
    /\ ret.op = "Insert"
    /\ ret.node \in DOMAIN forward
    /\ Len(heads) >= 2
    /\ LET c == chain(heads, forward, 1)
       IN  /\ ret.node \in elems(c)
           /\ \E m \in elems(c) : m # ret.node /\ value[m] = ret.arg
           /\ \E g \in elems(c) : value[g] > ret.arg

\* C5: DeleteFirst(v) on a list in which no present element compares equal to
\* v leaves heads, every chain and every height as they were.
C5_DeleteAbsentIsNoOp ==
    [][(ret'.op = "DeleteFirst" /\ equalTo(heads, forward, value, ret'.arg) = {}) =>
          /\ heads' = heads
          /\ forward' = forward
          /\ value' = value
      ]_vars

\* C5 witness: a DeleteFirst of a value that is absent released nothing, in a
\* list of two levels that holds a smaller and a greater value.
C5_Witness ==
    /\ ret.op = "DeleteFirst"
    /\ ret.node = Nil
    /\ equalTo(heads, forward, value, ret.arg) = {}
    /\ Len(heads) >= 2
    /\ \E n \in present(heads, forward) : value[n] < ret.arg
    /\ \E n \in present(heads, forward) : value[n] > ret.arg

\* C6: on a freshly created list First, Last and FindFirst(v) return
\* found = false, and DeleteFirst(v) completes and leaves heads empty.
C6_FreshList ==
    insertedAt = 0 =>
        /\ heads = <<>>
        /\ forward = <<>>
        /\ ~ret.panic
        /\ (ret.op \in {"First", "Last", "FindFirst"} => ~ret.found /\ ret.node = Nil)

\* C6 witness: DeleteFirst was called on the list before any Insert.
C6_Witness ==
    /\ insertedAt = 0
    /\ ret.op = "DeleteFirst"

\* the answer First owes for the set P of present nodes
firstAnswers(r, P, hd, val) ==
    /\ r.found <=> P # {}
    /\ r.found =>
          /\ r.node = hd[1]
          /\ \A n \in P : cmp(val[r.node], val[n]) \in {-1, 0}
          /\ r.node = earliest({n \in P : cmp(val[n], val[r.node]) = 0})

\* C7: First() returns found = true exactly when an element is present, and
\* then the node at the head of the bottom level, which is the earliest
\* inserted element among those of minimum value.
C7_First ==
    ret.op = "First" => firstAnswers(ret, present(heads, forward), heads, value)

\* C7 witness: First() answered on a list of two levels whose minimum value is
\* present twice and whose top head is not the bottom head.
C7_Witness ==
    /\ ret.op = "First"
    /\ ret.found
    /\ Len(heads) >= 2
    /\ heads[Len(heads)] # heads[1]
    /\ Cardinality(equalTo(heads, forward, value, value[heads[1]])) >= 2

\* the answer Last owes for the bottom level b
lastAnswers(r, b, val) ==
    /\ r.found <=> b # <<>>
    /\ r.found =>
          /\ r.node = b[Len(b)]
          /\ \A n \in elems(b) : cmp(val[r.node], val[n]) \in {0, 1}
          /\ r.node = latest({n \in elems(b) : cmp(val[n], val[r.node]) = 0})

\* C8: Last() returns found = true exactly when an element is present, and
\* then the rightmost node of the bottom level, which is the latest inserted
\* element among those of maximum value.
C8_Last ==
    ret.op = "Last" => lastAnswers(ret, bottom(heads, forward), value)

\* C8 witness: Last() answered with a node of height 1 on a list of two levels
\* whose maximum value is present twice.
C8_Witness ==
    /\ ret.op = "Last"
    /\ ret.found
    /\ Len(heads) >= 2
    /\ height(forward, ret.node) = 1
    /\ Cardinality(equalTo(heads, forward, value, value[ret.node])) >= 2

\* the leftmost node of the chain c that belongs to E (Nil when none does)
firstOfGroup(c, E) ==
    IF elems(c) \cap E = {} THEN Nil
    ELSE c[CHOOSE j \in DOMAIN c : c[j] \in E /\ \A k \in 1..(j - 1) : c[k] \notin E]

\* e is at least as high as every node of the group E and leftmost of the
\* group on every level
wall(E, e, hd, fw) ==
    /\ \A n \in E : height(fw, e) >= height(fw, n)
    /\ \A L \in 0..(Len(hd) - 1) : firstOfGroup(chain(hd, fw, L), E) \in {Nil, e}

\* C9: wall invariant.  In every group of present nodes that compare equal the
\* earliest inserted node is at least as high as every other node of the
\* group, and on every level where the group appears it is the leftmost node
\* of the group.
C9_Wall ==
    \A v \in Values :
        wall(equalTo(heads, forward, value, v),
             earliest(equalTo(heads, forward, value, v)), heads, forward)

\* C9 witness: after a DeleteFirst released a node, the group of its argument
\* still has two nodes on level 1.
C9_Witness ==
    /\ ret.op = "DeleteFirst"
    /\ ret.node # Nil
    /\ Len(heads) >= 2
    /\ Cardinality(elems(chain(heads, forward, 1))
                     \cap equalTo(heads, forward, value, ret.arg)) >= 2

\* the chain c is well formed and its values are non-decreasing
sortedChain(c, val) ==
    /\ elems(c) \subseteq DOMAIN val
    /\ \A j \in 1..(Len(c) - 1) : cmp(val[c[j]], val[c[j + 1]]) \in {-1, 0}

\* C10: order invariant.  On every level of heads the values read left to
\* right along forward are non-decreasing under the comparator.
C10_Order ==
    \A L \in 0..(Len(heads) - 1) : sortedChain(chain(heads, forward, L), value)

\* C10 witness: after an Insert, level 1 holds equal nodes followed by a
\* greater one.
C10_Witness ==
    /\ ret.op = "Insert"
    /\ Len(heads) >= 2
    /\ LET c == chain(heads, forward, 1)
       IN  /\ Len(c) >= 3
           /\ \E j \in 1..(Len(c) - 1) : value[c[j]] = value[c[j + 1]]
           /\ \E j \in 1..(Len(c) - 1) : value[c[j]] < value[c[j + 1]]

\* the chain c is well formed and any two of its nodes that compare equal stand
\* in strictly increasing insertion order
stableChain(c, val) ==
    /\ elems(c) \subseteq DOMAIN val
    /\ \A i, j \in 1..Len(c) :
          (i < j /\ cmp(val[c[i]], val[c[j]]) = 0) => c[i] < c[j]

\* C11: per-level stability.  On every level of heads, any two nodes that
\* compare equal appear in strictly increasing insertion order from left to
\* right.
C11_LevelStability ==
    \A L \in 0..(Len(heads) - 1) : stableChain(chain(heads, forward, L), value)

\* C11 witness: an Insert grew the earliest equal node, and level 1 holds
\* three nodes equal to the inserted value.
C11_Witness ==
    /\ ret.op = "Insert"
    /\ ret.grown # Nil
    /\ Len(heads) >= 2
    /\ Cardinality({n \in elems(chain(heads, forward, 1)) :
                       value[n] = ret.arg}) >= 3

\* the levels on which at least one of the nodes of S has a slot
occupied(fw, S) == UNION {0..(Len(fw[n]) - 1) : n \in S}

\* C12: heads invariant (I1).  No entry of heads is nil and len(heads) is the
\* number of levels that hold at least one node, so that DeleteFirst drops
\* every top level its removal empties and heads is empty once every element
\* is removed.
C12_Heads ==
    /\ \A i \in 1..Len(heads) : heads[i] # Nil
    /\ present(heads, forward) \subseteq DOMAIN forward
    /\ Len(heads) = Cardinality(occupied(forward, present(heads, forward)
                                              \cap DOMAIN forward))
    /\ present(heads, forward) = {} => heads = <<>>

\* C12 witness: a DeleteFirst released a node that was the only node of two
\* or more top levels, other nodes remaining.
C12_Witness ==
    /\ ret.op = "DeleteFirst"
    /\ ret.node # Nil
    /\ Len(heads) >= 1
    /\ ret.levels >= Len(heads) + 2

\* C12 second case: a DeleteFirst released the last node of a list of two or
\* more levels.
C12_Emptied ==
    /\ ret.op = "DeleteFirst"
    /\ ret.node # Nil
    /\ ret.levels >= 2
    /\ heads = <<>>

\* C13: height invariant (I2).  Every node reachable from heads[L] along
\* forward[L] has a forward table of length at least L+1 and at most
\* len(heads).
C13_Heights ==
    \A L \in 0..(Len(heads) - 1) :
        \A n \in elems(chain(heads, forward, L)) :
            /\ n \in DOMAIN forward
            /\ Len(forward[n]) >= L + 1
            /\ Len(forward[n]) <= Len(heads)

\* C13 witness: after an Insert that drew a height above len(heads), the list
\* has three levels and nodes of heights 1, 2 and 3.
C13_Witness ==
    /\ ret.op = "Insert"
    /\ ret.height > ret.levels
    /\ Len(heads) = 3
    /\ \A k \in 1..3 : \E n \in present(heads, forward) : height(forward, n) = k

\* C14: level-size invariant (I5).  For every L with L+1 < len(heads), the
\* number of nodes reachable at level L+1 is at most the number reachable at
\* level L.
C14_LevelSizes ==
    \A L \in 0..(Len(heads) - 2) :
        Len(chain(heads, forward, L + 1)) <= Len(chain(heads, forward, L))

\* C14 witness: after a DeleteFirst released a node, levels 0 and 1 hold the
\* same two or more nodes and level 2 holds fewer.
C14_Witness ==
    /\ ret.op = "DeleteFirst"
    /\ ret.node # Nil
    /\ Len(heads) = 3
    /\ Len(chain(heads, forward, 0)) >= 2
    /\ Len(chain(heads, forward, 1)) = Len(chain(heads, forward, 0))
    /\ Len(chain(heads, forward, 2)) < Len(chain(heads, forward, 1))

\* the height assignment of one Insert, from the forward tables fw before the
\* call to the tables fw2 and heads hd2 after it: e is the earliest equal node
\* present before the call (Nil when there is none), new the inserted node and
\* h the drawn height
heightAssigned(fw, fw2, hd2, e, new, h) ==
    IF e # Nil /\ h > Len(fw[e])
    THEN /\ Len(fw2[e]) = h
         /\ Len(fw2[new]) = Len(fw[e])
         /\ \A L \in Len(fw[e])..(h - 1) : e \in elems(chain(hd2, fw2, L))
    ELSE /\ Len(fw2[new]) = h
         /\ \A n \in DOMAIN fw : Len(fw2[n]) = Len(fw[n])

\* C15: Insert height assignment.  When Insert(v) draws height h and e is the
\* earliest present node equal to v: if h exceeds e's height, e's height
\* becomes h, the new node gets e's height before the call and e is linked
\* into every level from its old height up to h; otherwise (no equal node, or
\* h not above e's height) the new node's height is h and no existing node
\* changes height.
C15_InsertHeights ==
    [][ret'.op = "Insert" =>
          heightAssigned(forward, forward', heads',
                         earliest(equalTo(heads, forward, value, ret'.arg)),
                         ret'.node, ret'.height)]_vars

\* C15 witness: an Insert grew the earliest equal node by two levels or more
\* above the height it gave to the new node.
C15_Witness ==
    /\ ret.op = "Insert"
    /\ ret.grown # Nil
    /\ value[ret.grown] = ret.arg
    /\ height(forward, ret.grown) = ret.height
    /\ ret.height >= height(forward, ret.node) + 2

\* the greatest height of the nodes of S, 0 for the empty set
tallest(fw, S) ==
    IF S = {} THEN 0 ELSE CHOOSE k \in {Len(fw[m]) : m \in S} : \A m \in S : Len(fw[m]) <= k

\* node n of the tables fw2 has height k, stands on every level below k of the
\* heads hd2, and its links on the levels it gained since fw are those node d
\* had in fw
promoted(fw, fw2, hd2, d, n, k) ==
    /\ n \in DOMAIN fw2
    /\ Len(fw2[n]) = k
    /\ k <= Len(fw[d])
    /\ \A L \in 0..(k - 1) : n \in elems(chain(hd2, fw2, L))
    /\ \A L \in Len(fw[n])..(k - 1) : fw2[n][L + 1] = fw[d][L + 1]

\* DeleteFirst releases node d of the tables fw, the node after d on the bottom
\* level compares equal to v and is lower than d
lowerDupe(fw, val, v, d) ==
    /\ d # Nil
    /\ fw[d][1] # Nil
    /\ cmp(val[fw[d][1]], v) = 0
    /\ Len(fw[d]) > Len(fw[fw[d][1]])

\* C16 as stated: when DeleteFirst(v) removes d and the node n after d on the
\* bottom level is equal to v and lower than d, then after the call n has the
\* height d had, stands on every level d stood on, and its links on the levels
\* it gained are those d had.
C16_PromotedToDeletedHeight ==
    [][(ret'.op = "DeleteFirst" /\ lowerDupe(forward, value, ret'.arg, ret'.node)) =>
          promoted(forward, forward', heads', ret'.node, forward[ret'.node][1],
                   Len(forward[ret'.node]))]_vars

\* C16 amended: under the same conditions n ends with the greatest height k
\* among the nodes equal to v that remain (d's levels above k held no other
\* equal node and are dropped), stands on every level below k, and its links
\* on the levels it gained are those d had.
C16_PromotedToWallHeight ==
    [][(ret'.op = "DeleteFirst" /\ lowerDupe(forward, value, ret'.arg, ret'.node)) =>
          promoted(forward, forward', heads', ret'.node, forward[ret'.node][1],
                   tallest(forward, equalTo(heads, forward, value, ret'.arg)
                                       \ {ret'.node}))]_vars

\* C16 witness: a DeleteFirst released the only node of the top level and made
\* the next equal node higher, up to the level below.
C16_Witness ==
    /\ ret.op = "DeleteFirst"
    /\ ret.node # Nil
    /\ ret.grown # Nil
    /\ value[ret.grown] = ret.arg
    /\ ret.levels = Len(heads) + 1
    /\ height(forward, ret.grown) = Len(heads)

\* the smaller of two integers
min(a, b) == IF a <= b THEN a ELSE b

\* C17 as stated: the height an Insert draws is 1 + the number of trailing
\* zero bits of the draw, clamped to at most len(heads) + 1.
C17_OnePlusTrailingZeros ==
    ret.op = "Insert" => ret.height = min(1 + TrailingZeros32(ret.rnd), ret.levels + 1)

\* 32-bit draws beyond those of Draws, below 2^31 (the integers of TLC stop
\* there): 0, odd and even numbers that are not powers of two, bit 30 alone
\* and bits 0 to 29 set
Uint32Samples == {0, 1, 2, 3, 6, 12, 40, pow2(Word - 2), pow2(Word - 2) - 1}

\* C18: for every 32-bit draw, 0 included, and every structure, the height
\* generator returns h with 1 <= h <= len(heads) + 1: the height every Insert
\* drew is in that range, and so is the height of each sampled draw on the
\* current structure.
C18_HeightRange ==
    /\ ret.op = "Insert" => (1 <= ret.height /\ ret.height <= ret.levels + 1)
    /\ \A rnd \in Uint32Samples \cup Draws :
          /\ 1 <= newHeight(rnd, Len(heads))
          /\ newHeight(rnd, Len(heads)) <= Len(heads) + 1

\* C18 witness: an Insert on a list of two levels or more drew 0 and got the
\* height len(heads) + 1.
C18_Witness ==
    /\ ret.op = "Insert"
    /\ ret.rnd = 0
    /\ ret.levels >= 2
    /\ ret.height = ret.levels + 1

\* heads after one Insert that drew h on a list of heads hd: hd2 and fw2 are
\* the heads and forward tables after the call, e the earliest equal node
\* present before it (Nil when there is none), new the inserted node
headsGrown(hd, hd2, fw2, e, new, h) ==
    IF h > Len(hd)
    THEN /\ Len(hd2) = Len(hd) + 1
         /\ hd2[Len(hd2)] = IF e # Nil THEN e ELSE new
         /\ chain(hd2, fw2, Len(hd)) = << hd2[Len(hd2)] >>
    ELSE Len(hd2) = Len(hd)

\* C19: heads growth on Insert.  One Insert increases len(heads) by at most
\* one, exactly when the drawn height exceeds len(heads) before the call; the
\* new top entry is then the earliest equal node present before the call if
\* there is one, else the new node, and it is the only node of the new top
\* level.
C19_HeadsGrowth ==
    [][ret'.op = "Insert" =>
          headsGrown(heads, heads', forward',
                     earliest(equalTo(heads, forward, value, ret'.arg)),
                     ret'.node, ret'.height)]_vars

\* C19 witness: an Insert of an equal value grew heads to three levels, the
\* new top head being the earlier equal node and not the new node.
C19_Witness ==
    /\ ret.op = "Insert"
    /\ ret.height > ret.levels
    /\ Len(heads) = 3
    /\ heads[3] # ret.node
    /\ heads[3] = ret.grown
    /\ value[heads[3]] = ret.arg

\* C20: height monotonicity.  Over every Insert and DeleteFirst, a node that
\* is in the structure before and after the call is at least as high after it
\* as before.
C20_HeightsNeverShrink ==
    [][ret'.op \in {"Insert", "DeleteFirst"} =>
          \A n \in DOMAIN forward \cap DOMAIN forward' :
              Len(forward'[n]) >= Len(forward[n])]_vars

\* C20 witness: a DeleteFirst released a node of three levels, its successor
\* of two levels staying as high as it was.
C20_Witness ==
    /\ ret.op = "DeleteFirst"
    /\ ret.node # Nil
    /\ ret.grown = Nil
    /\ ret.levels = 3
    /\ Len(heads) = 2
    /\ Cardinality(present(heads, forward)) >= 2
    /\ \E n \in present(heads, forward) : value[n] = ret.arg /\ height(forward, n) = 2

\* node d is out of the structure of heads hd2 and tables fw2: no head and no
\* link of a remaining node points to it, and it is on no level
gone(hd2, fw2, d) ==
    /\ d \notin DOMAIN fw2
    /\ \A i \in DOMAIN hd2 : hd2[i] # d
    /\ \A n \in DOMAIN fw2 : \A i \in DOMAIN fw2[n] : fw2[n][i] # d
    /\ \A L \in 0..(Len(hd2) - 1) : d \notin elems(chain(hd2, fw2, L))

\* C21: after DeleteFirst(v) has removed a node d (the earliest present node
\* equal to v), d is reachable from no head at any level, and no head and no
\* remaining node points to it.
C21_Unlinked ==
    [][(ret'.op = "DeleteFirst" /\ equalTo(heads, forward, value, ret'.arg) # {}) =>
          gone(heads', forward', earliest(equalTo(heads, forward, value, ret'.arg)))]_vars

\* C21 witness: a DeleteFirst released a node of two levels or more that
\* stood behind a smaller node on level 1.
C21_Witness ==
    /\ ret.op = "DeleteFirst"
    /\ ret.node # Nil
    /\ ret.dropped >= 2
    /\ Len(heads) >= 2
    /\ \E n \in elems(chain(heads, forward, 1)) : value[n] < ret.arg

\* the first comparison of a descent for v, heads[len(heads)-1].value against
\* v, returns a value outside {-1, 0, 1}
firstCmpOutOfRange(hd, val, v) ==
    /\ Len(hd) >= 1
    /\ cmp(val[hd[Len(hd)]], v) \notin {-1, 0, 1}

\* C22 as stated: an Insert, FindFirst or DeleteFirst whose descent gets a
\* comparator result outside {-1, 0, 1} (here: already from its first
\* comparison) panics.
C22_PanicOnBadCmp ==
    [][(ret'.op \in {"Insert", "FindFirst", "DeleteFirst"}
          /\ firstCmpOutOfRange(heads, value, ret'.arg)) => ret'.panic]_vars

\* what holds of C22: Insert and FindFirst panic in that case, both through
\* findFirstNode, and leave the list as it was.
C22_FindFirstNodePanics ==
    [][(ret'.op \in {"Insert", "FindFirst"}
          /\ firstCmpOutOfRange(heads, value, ret'.arg)) =>
            (ret'.panic /\ heads' = heads /\ forward' = forward)]_vars

\* a DeleteFirst whose first comparison returned a value outside {-1, 0, 1}
\* returned normally, the list being as before
C22_SilentDeleteFirst ==
    /\ ret.op = "DeleteFirst"
    /\ ~ret.panic
    /\ ret.node = Nil
    /\ firstCmpOutOfRange(heads, value, ret.arg)

\* C23: on every structure reachable by Insert and DeleteFirst and for every
\* query value, FindFirst returns (it does not panic) after at most
\* (number of present nodes) x len(heads) comparator calls; every iteration
\* of its loops makes one call, so the bound on the calls bounds its run.
C23_FindFirstCost ==
    ret.op = "FindFirst" =>
        /\ ~ret.panic
        /\ ret.cmps <= Cardinality(present(heads, forward)) * Len(heads)

\* C23 witness: a FindFirst on a list of two levels or more and three nodes
\* or more made four comparator calls or more and found nothing.
C23_Witness ==
    /\ ret.op = "FindFirst"
    /\ ~ret.found
    /\ Len(heads) >= 2
    /\ Cardinality(present(heads, forward)) >= 3
    /\ ret.cmps >= 4

\* C23, the bound is reached: a FindFirst on a list of two nodes made two
\* comparator calls on its only level.
C23_Tight ==
    /\ ret.op = "FindFirst"
    /\ Len(heads) = 1
    /\ Cardinality(present(heads, forward)) = 2
    /\ ret.cmps = 2

\* the subsequence of s made of its elements in S
RECURSIVE only(_, _)
only(s, S) ==
    IF s = <<>> THEN <<>>
    ELSE IF Head(s) \in S THEN <<Head(s)>> \o only(Tail(s), S)
    ELSE only(Tail(s), S)

\* the chain c of level L is a walk over nodes of the tables fw that ends in
\* nil and repeats no node, and holds exactly the nodes of P that have more
\* than L levels
levelOf(c, fw, P, L) ==
    /\ elems(c) \subseteq DOMAIN fw
    /\ \A i, j \in 1..Len(c) : c[i] = c[j] => i = j
    /\ elems(c) = {n \in P \cap DOMAIN fw : Len(fw[n]) > L}

\* C24: level nesting.  Every present node of height h is exactly once in the
\* chain of each level L < h and in no chain of a level L >= h; the chain of
\* level L+1 is a subsequence of the chain of level L; every chain is acyclic
\* and ends in nil; so no node has a slot of its forward table on whose level
\* it is not linked.
C24_Nesting ==
    /\ \A L \in 0..(Len(heads) - 1) :
          levelOf(chain(heads, forward, L), forward, present(heads, forward), L)
    /\ \A n \in present(heads, forward) \cap DOMAIN forward :
          Len(forward[n]) <= Len(heads)
    /\ \A L \in 0..(Len(heads) - 2) :
          chain(heads, forward, L + 1) =
              only(chain(heads, forward, L), elems(chain(heads, forward, L + 1)))

\* C24 witness: after a DeleteFirst made a node higher, the list has three
\* levels, the promoted node standing on level 1 with other nodes and level 2
\* holding fewer nodes than level 1.
C24_Witness ==
    /\ ret.op = "DeleteFirst"
    /\ ret.grown # Nil
    /\ Len(heads) = 3
    /\ ret.grown \in elems(chain(heads, forward, 1))
    /\ Len(chain(heads, forward, 1)) >= 3
    /\ Len(chain(heads, forward, 2)) < Len(chain(heads, forward, 1))

\* C24, the Insert case: an Insert made the earliest equal node higher by two
\* levels, a smaller node standing before it on the level in between.
C24_GrownLinked ==
    /\ ret.op = "Insert"
    /\ ret.grown # Nil
    /\ ret.height = 3
    /\ height(forward, ret.node) = 1
    /\ \E n \in elems(chain(heads, forward, 1)) : value[n] < ret.arg

\* the structures (hd1, fw1) and (hd2, fw2) have the same len(heads), the same
\* chain of nodes on every level and the same height for every node
sameStructure(hd1, fw1, hd2, fw2) ==
    /\ Len(hd1) = Len(hd2)
    /\ \A L \in 0..(Len(hd1) - 1) : chain(hd1, fw1, L) = chain(hd2, fw2, L)
    /\ DOMAIN fw1 = DOMAIN fw2
    /\ \A n \in DOMAIN fw1 : Len(fw1[n]) = Len(fw2[n])

\* C25: Insert/DeleteFirst round trip.  When Insert(v), with any height draw,
\* on a structure S that holds no element equal to v is directly followed by
\* DeleteFirst(v), the structure is S again: same len(heads), same chain on
\* every level, same height for every node.
C25_RoundTrip ==
    [][(ret.op = "Insert" /\ ret.before.fresh /\ ~ret.panic
          /\ ret'.op = "DeleteFirst" /\ ret'.arg = ret.arg) =>
            sameStructure(ret.before.heads, ret.before.forward, heads', forward')]_vars

\* C25 witness: a DeleteFirst took back the Insert just before it, whose node
\* had two levels or more and stood between a smaller and a greater node.
C25_Witness ==
    /\ ret.op = "DeleteFirst"
    /\ ret.undoes
    /\ ret.node # Nil
    /\ ret.dropped >= 2
    /\ \E n \in present(heads, forward) : value[n] < ret.arg
    /\ \E n \in present(heads, forward) : value[n] > ret.arg

\* C25, the draw above len(heads): a DeleteFirst took back an Insert that had
\* added a level to a non-empty list.
C25_LevelTakenBack ==
    /\ ret.op = "DeleteFirst"
    /\ ret.undoes
    /\ ret.node # Nil
    /\ ret.dropped = ret.levels
    /\ Len(heads) = ret.levels - 1
    /\ Len(heads) >= 1

====
